---- MODULE Spec2Model ----
(***************************************************************************)
(* A model of lldap's network front door:                                  *)
(*   server/src/infra/ldap_server.rs  (session loop, file loader, TLS      *)
(*                                     acceptor, listener binding)         *)
(*   server/src/infra/tcp_server.rs   (HTTP application assembly)          *)
(*                                                                         *)
(* Three specifications share the module:                                  *)
(*   Spec         directory-protocol connections and their session loops   *)
(*   StartupSpec  build_ldap_server: certificate loading and port binding  *)
(*   HttpSpec     build_tcp_server: per-worker application state           *)
(***************************************************************************)
EXTENDS Integers, Sequences, FiniteSets, TLC

VARIABLES
    \* ---- directory-protocol connections (Spec) ----
    listening,   \* the services the running server accepts on
    endpoint,    \* per connection: the service that accepted it
    pc,          \* per connection: position of its task
    cur,         \* per connection: `msg`, the request being handled
    result,      \* per connection: what handle_ldap_message returned for cur
    pending,     \* per connection: the rest of result.into_iter()
    sent,        \* per connection: responses written for the current request
    dirty,       \* per connection: written data the write side has not flushed
    nreq,        \* per connection: number of requests decoded so far
    outcome,     \* per connection: "running", "ok" (stream returned) or "err"
    errctx,      \* per connection: context chain of the error, outermost first
    at_eof,      \* per connection: the peer closed and all it sent was decoded
    stream,      \* per connection: where its stream value is
    session_dn,  \* per session: the bound identity of its LdapHandler
    flush_calls, \* per connection: resp.flush() calls for the current request
    acceptors,   \* number of TlsAcceptors constructed in this process
    acceptor_of, \* per connection: the acceptor its handshake used
    \* ---- build_ldap_server (StartupSpec) ----
    cfg,         \* Configuration
    fs,          \* the files behind the configured paths
    busy,        \* ports some other process holds
    bpc,         \* position inside build_ldap_server
    loaded,      \* per path: what get_file_as_byte_vec returned
    tls_built,   \* whether a TlsAcceptor was constructed
    builder,     \* services bound in the ServerBuilder value
    attempts,    \* bind attempts made, in order
    bresult,     \* the Result build_ldap_server returned
    \* ---- build_tcp_server (HttpSpec) ----
    hpc,         \* position inside build_tcp_server
    db_blacklist,\* the backend's stored set of revoked token hashes
    jwt_blacklist, \* the HashSet captured by the service factory closure
    app_state,   \* per worker: the jwt_blacklist of its AppState
    started,     \* workers whose service factory has run
    revoked,     \* token hashes some logout has inserted
    hresult,     \* the Result build_tcp_server returned
    fetches,     \* calls of get_jwt_blacklist made by build_tcp_server
    http_binds,  \* calls of bind("http", ..) made by build_tcp_server
    exchange     \* the last HTTP exchange: an error conversion or a routed request

sessionVars == <<listening, endpoint, pc, cur, result, pending, sent, dirty,
                 nreq, outcome, errctx, at_eof, stream, session_dn, flush_calls,
                 acceptors, acceptor_of>>
startupVars == <<cfg, fs, busy, bpc, loaded, tls_built, builder, attempts, bresult>>
httpVars    == <<hpc, db_blacklist, jwt_blacklist, app_state, started, revoked, hresult,
                 fetches, http_binds, exchange>>
vars        == <<sessionVars, startupVars, httpVars>>

\* what the actions of one specification leave alone
SessionOnly == UNCHANGED <<startupVars, httpVars>>
StartupOnly == UNCHANGED <<sessionVars, httpVars>>
HttpOnly    == UNCHANGED <<sessionVars, fs, bpc, loaded, tls_built, builder,
                           attempts, bresult>>

(***************************************************************************)
(* Bounds                                                                  *)
(***************************************************************************)
MaxReqs == 2        \* requests decoded by the server, over all its connections
MaxResp == 2        \* response operations the handler returns for a request
MaxFileLen == 2     \* bytes in a certificate or key file

Conns   == {"c1", "c2"}
MsgIds  == {7, 8}
ReqOps  == {"bind", "search", "unbind"}
Services == {"ldap", "ldaps", "http"}

(***************************************************************************)
(* Protocol messages                                                       *)
(***************************************************************************)
NoMsg == [msgid |-> 0, op |-> "none"]

Requests == [msgid : MsgIds, op : ReqOps]

\* the response operations 1..k, in the order the handler produced them
OpsUpTo(k) == [i \in 1..k |-> i]

NoResult   == [kind |-> "pending", ops |-> <<>>]
NoneResult == [kind |-> "None", ops |-> <<>>]
SomeResult(ops) == [kind |-> "Some", ops |-> ops]

\* LdapHandler::handle_ldap_message: None for an unbind, one bind response for
\* a bind, and any number of entries (none included) for a search.
handle_ldap_message(op) ==
    CASE op = "unbind" -> {NoneResult}
      [] op = "bind"   -> {SomeResult(OpsUpTo(1))}
      [] OTHER         -> {SomeResult(OpsUpTo(k)) : k \in 0..MaxResp}

\* everything handle_ldap_message can return
HandlerResults == {NoneResult} \cup {SomeResult(OpsUpTo(k)) : k \in 0..MaxResp}

\* The message resp.send is given: LdapMsg { msgid: msg.msgid, op: result_op, ctrl: vec![] }
ResponseMsg_ZeroId(msg, result_op) == [msgid |-> 0, op |-> result_op, ctrl |-> <<>>]

ResponseMsg(msg, result_op) ==
    [msgid |-> msg.msgid, op |-> result_op, ctrl |-> <<>>]

(***************************************************************************)
(* The session loop: handle_ldap_stream / handle_incoming_message          *)
(***************************************************************************)
Fail_ReturnsStream(c, chain) ==
    /\ pc' = [pc EXCEPT ![c] = "done"]
    /\ outcome' = [outcome EXCEPT ![c] = "err"]
    /\ errctx' = [errctx EXCEPT ![c] = chain]
    /\ stream' = [stream EXCEPT ![c] = "returned"]

\* An error leaves through `?`: the halves of the stream are dropped with the
\* future, and the service's map_err logs the error.
Fail(c, chain) ==
    /\ pc' = [pc EXCEPT ![c] = "done"]
    /\ outcome' = [outcome EXCEPT ![c] = "err"]
    /\ errctx' = [errctx EXCEPT ![c] = chain]
    /\ stream' = [stream EXCEPT ![c] = "dropped"]

SessionOf_Shared(c) == "c1"

\* line 85: `let mut session = LdapHandler::new(..)` is a local of the
\* connection's own handle_ldap_stream call
SessionOf(c) == c

\* LdapHandler::new: the session starts unauthenticated
NewSession(c) == [session_dn EXCEPT ![SessionOf(c)] = "unauthenticated"]

\* Ok(requests.into_inner().unsplit(resp.into_inner()))
ReturnStream(c) == [stream EXCEPT ![c] = "returned"]

\* The server hands an accepted TcpStream to the service of its listener; on
\* the plaintext endpoint handle_ldap_stream starts at once: it splits the
\* stream (line 80) and creates the session (line 85).
Accept(c, e) ==
    /\ pc[c] = "idle"
    /\ e \in listening \cap {"ldap", "ldaps"}
    /\ endpoint' = [endpoint EXCEPT ![c] = e]
    /\ pc' = [pc EXCEPT ![c] = IF e = "ldaps" THEN "handshake" ELSE "read"]
    /\ stream' = [stream EXCEPT ![c] = IF e = "ldaps" THEN "raw" ELSE "split"]
    /\ session_dn' = IF e = "ldaps" THEN session_dn ELSE NewSession(c)
    /\ UNCHANGED <<listening, cur, result, pending, sent, dirty, nreq, outcome, errctx>>
    /\ UNCHANGED <<at_eof, flush_calls, acceptors, acceptor_of>>
    /\ SessionOnly

AcceptorFor_Rebuilt(c) == "fresh"

\* line 143: tls_acceptor.clone(), the acceptor of tls_context built at bind time
AcceptorFor(c) == "shared"

\* constructing an acceptor for a handshake would add one to the count
UseAcceptor(c) ==
    /\ acceptor_of' = [acceptor_of EXCEPT ![c] = AcceptorFor(c)]
    /\ acceptors' = IF AcceptorFor(c) = "fresh" THEN acceptors + 1 ELSE acceptors

\* tls_acceptor.clone().accept(stream).await succeeded; handle_ldap_stream
\* starts on the encrypted stream
TlsHandshakeOk(c) ==
    /\ pc[c] = "handshake"
    /\ pc' = [pc EXCEPT ![c] = "read"]
    /\ UseAcceptor(c)
    /\ stream' = [stream EXCEPT ![c] = "split"]
    /\ session_dn' = NewSession(c)
    /\ UNCHANGED <<listening, endpoint, cur, result, pending, sent, dirty, nreq,
                   outcome, errctx>>
    /\ UNCHANGED <<at_eof, flush_calls>>
    /\ SessionOnly

TlsHandshakeFail_StopsListener(c) ==
    /\ pc[c] = "handshake"
    /\ Fail(c, <<"tls handshake">>)
    /\ UseAcceptor(c)
    /\ listening' = listening \ {"ldaps"}
    /\ UNCHANGED <<endpoint, cur, result, pending, sent, dirty, nreq>>
    /\ UNCHANGED <<at_eof, session_dn, flush_calls>>
    /\ SessionOnly

\* ...accept(stream).await? failed: the service's error is logged by map_err
TlsHandshakeFail(c) ==
    /\ pc[c] = "handshake"
    /\ Fail(c, <<"tls handshake">>)
    /\ UseAcceptor(c)
    /\ UNCHANGED <<listening, endpoint, cur, result, pending, sent, dirty, nreq>>
    /\ UNCHANGED <<at_eof, session_dn, flush_calls>>
    /\ SessionOnly

\* The peer closes its side; everything it sent has been decoded, so the next
\* requests.next() yields None.
PeerClose(c) ==
    /\ pc[c] \in {"read", "handle", "reply"}
    /\ ~at_eof[c]
    /\ at_eof' = [at_eof EXCEPT ![c] = TRUE]
    /\ UNCHANGED <<listening, endpoint, pc, cur, result, pending, sent, dirty, nreq,
                   outcome, errctx>>
    /\ UNCHANGED <<stream, session_dn, flush_calls, acceptors, acceptor_of>>
    /\ SessionOnly

\* requests decoded so far, over all connections
TotalReqs == nreq["c1"] + nreq["c2"]

CanRead_Pipelined(c) == pc[c] \in {"read", "reply"}

\* `while let Some(msg) = requests.next().await` is reached only at the loop head
CanRead(c) == pc[c] = "read"

\* requests.next() yields Some(Ok(msg)); handle_incoming_message takes it
ReadMsg(c, m) ==
    /\ CanRead(c)
    /\ ~at_eof[c]
    /\ TotalReqs < MaxReqs
    /\ cur' = [cur EXCEPT ![c] = m]
    /\ nreq' = [nreq EXCEPT ![c] = @ + 1]
    /\ result' = [result EXCEPT ![c] = NoResult]
    /\ sent' = [sent EXCEPT ![c] = <<>>]
    /\ flush_calls' = [flush_calls EXCEPT ![c] = 0]
    /\ pc' = [pc EXCEPT ![c] = "handle"]
    /\ UNCHANGED <<listening, endpoint, pending, dirty, outcome, errctx>>
    /\ UNCHANGED <<at_eof, stream, session_dn, acceptors, acceptor_of>>
    /\ SessionOnly

ReadErr_Resync(c) ==
    /\ CanRead(c)
    /\ ~at_eof[c]
    /\ errctx' = [errctx EXCEPT ![c] =
                    <<"while handling incoming messages", "while receiving LDAP op">>]
    /\ UNCHANGED <<listening, endpoint, pc, outcome, cur, result, pending, sent, dirty, nreq>>
    /\ UNCHANGED <<at_eof, stream, session_dn, flush_calls, acceptors, acceptor_of>>
    /\ SessionOnly

\* requests.next() yields Some(Err(_)): msg.context("while receiving LDAP op")?
ReadErr(c) ==
    /\ CanRead(c)
    /\ ~at_eof[c]
    /\ Fail(c, <<"while handling incoming messages", "while receiving LDAP op">>)
    /\ UNCHANGED <<listening, endpoint, cur, result, pending, sent, dirty, nreq>>
    /\ UNCHANGED <<at_eof, session_dn, flush_calls, acceptors, acceptor_of>>
    /\ SessionOnly

StreamEnded_OrIdle(c) == TRUE

\* requests.next() yields None only at the end of the peer's stream: nothing
\* else, no timer included, ends the wait
StreamEnded(c) == at_eof[c]

\* requests.next() yields None: the loop ends and the stream is returned
ReadEof(c) ==
    /\ CanRead(c)
    /\ StreamEnded(c)
    /\ pc' = [pc EXCEPT ![c] = "done"]
    /\ outcome' = [outcome EXCEPT ![c] = "ok"]
    /\ stream' = ReturnStream(c)
    /\ UNCHANGED <<listening, endpoint, cur, result, pending, sent, dirty, nreq, errctx>>
    /\ UNCHANGED <<at_eof, session_dn, flush_calls, acceptors, acceptor_of>>
    /\ SessionOnly

AfterNone_KeepsReading(c) == "read"

\* `None => return Ok(false)` and the loop's `break`
AfterNone(c) == "done"

\* session.handle_ldap_message(msg.op).await, on the connection's session; a
\* bind sets the session's bound identity
Handle(c, r) ==
    /\ pc[c] = "handle"
    /\ r \in handle_ldap_message(cur[c].op)
    /\ result' = [result EXCEPT ![c] = r]
    /\ session_dn' = IF cur[c].op = "bind"
                       THEN [session_dn EXCEPT ![SessionOf(c)] = "bound"]
                       ELSE session_dn
    /\ IF r.kind = "None"
         THEN /\ pc' = [pc EXCEPT ![c] = AfterNone(c)]
              /\ outcome' = [outcome EXCEPT ![c] =
                               IF AfterNone(c) = "done" THEN "ok" ELSE @]
              /\ stream' = IF AfterNone(c) = "done" THEN ReturnStream(c) ELSE stream
              /\ UNCHANGED pending
         ELSE /\ pc' = [pc EXCEPT ![c] = "reply"]
              /\ pending' = [pending EXCEPT ![c] = r.ops]
              /\ UNCHANGED <<outcome, stream>>
    /\ UNCHANGED <<listening, endpoint, cur, sent, dirty, nreq, errctx>>
    /\ UNCHANGED <<at_eof, flush_calls, acceptors, acceptor_of>>
    /\ SessionOnly

SendOk_DropsOp(c) ==
    /\ pc[c] = "reply"
    /\ pending[c] # <<>>
    /\ sent' = [sent EXCEPT ![c] =
                  IF Len(pending[c]) = 1
                    THEN @ ELSE Append(@, ResponseMsg(cur[c], Head(pending[c])))]
    /\ pending' = [pending EXCEPT ![c] = Tail(@)]
    /\ dirty' = [dirty EXCEPT ![c] = FALSE]
    /\ UNCHANGED <<listening, endpoint, pc, cur, result, nreq, outcome, errctx>>
    /\ UNCHANGED <<at_eof, stream, session_dn, flush_calls, acceptors, acceptor_of>>
    /\ SessionOnly

\* resp.send(LdapMsg {..}).await succeeded: the message is written and flushed
SendOk(c) ==
    /\ pc[c] = "reply"
    /\ pending[c] # <<>>
    /\ sent' = [sent EXCEPT ![c] = Append(@, ResponseMsg(cur[c], Head(pending[c])))]
    /\ pending' = [pending EXCEPT ![c] = Tail(@)]
    /\ dirty' = [dirty EXCEPT ![c] = FALSE]
    /\ UNCHANGED <<listening, endpoint, pc, cur, result, nreq, outcome, errctx>>
    /\ UNCHANGED <<at_eof, stream, session_dn, flush_calls, acceptors, acceptor_of>>
    /\ SessionOnly

SendFail_Continues(c, written) ==
    /\ pc[c] = "reply"
    /\ pending[c] # <<>>
    /\ errctx' = [errctx EXCEPT ![c] =
                    <<"while handling incoming messages", "while sending a response: {:#}">>]
    /\ pending' = [pending EXCEPT ![c] = Tail(@)]
    /\ UNCHANGED <<listening, endpoint, pc, outcome, cur, result, sent, dirty, nreq>>
    /\ UNCHANGED <<at_eof, stream, session_dn, flush_calls, acceptors, acceptor_of>>
    /\ SessionOnly

\* resp.send(..).await failed, before the message was written or while flushing it
SendFail(c, written) ==
    /\ pc[c] = "reply"
    /\ pending[c] # <<>>
    /\ Fail(c, <<"while handling incoming messages", "while sending a response: {:#}">>)
    /\ IF written
         THEN /\ sent' = [sent EXCEPT ![c] =
                            Append(@, ResponseMsg(cur[c], Head(pending[c])))]
              /\ dirty' = [dirty EXCEPT ![c] = TRUE]
         ELSE UNCHANGED <<sent, dirty>>
    /\ UNCHANGED <<listening, endpoint, cur, result, pending, nreq>>
    /\ UNCHANGED <<at_eof, session_dn, flush_calls, acceptors, acceptor_of>>
    /\ SessionOnly

\* resp.flush().await succeeded; handle_incoming_message returns Ok(true)
AfterFlush_EndsOnEmpty(c) == IF result[c].ops = <<>> THEN "done" ELSE "read"

\* `Ok(true)`: the loop goes on to the next requests.next()
AfterFlush(c) == "read"

FlushOk(c) ==
    /\ pc[c] = "reply"
    /\ pending[c] = <<>>
    /\ dirty' = [dirty EXCEPT ![c] = FALSE]
    /\ flush_calls' = [flush_calls EXCEPT ![c] = @ + 1]
    /\ pc' = [pc EXCEPT ![c] = AfterFlush(c)]
    /\ outcome' = [outcome EXCEPT ![c] = IF AfterFlush(c) = "done" THEN "ok" ELSE @]
    /\ stream' = IF AfterFlush(c) = "done" THEN ReturnStream(c) ELSE stream
    /\ UNCHANGED <<listening, endpoint, cur, result, pending, sent, nreq, errctx>>
    /\ UNCHANGED <<at_eof, session_dn, acceptors, acceptor_of>>
    /\ SessionOnly

\* resp.flush().await failed
FlushFail(c) ==
    /\ pc[c] = "reply"
    /\ pending[c] = <<>>
    /\ flush_calls' = [flush_calls EXCEPT ![c] = @ + 1]
    /\ Fail(c, <<"while handling incoming messages", "while flushing responses: {:#}">>)
    /\ UNCHANGED <<listening, endpoint, cur, result, pending, sent, dirty, nreq>>
    /\ UNCHANGED <<at_eof, session_dn, acceptors, acceptor_of>>
    /\ SessionOnly

\* The state of the connections when the server starts: build_ldap_server
\* returned Ok, so its one acceptor exists (lines 120-123).
SessionInit ==
    /\ listening \in {{"ldap", "http"}, {"ldap", "ldaps", "http"}}
    /\ endpoint = [c \in Conns |-> "none"]
    /\ pc = [c \in Conns |-> "idle"]
    /\ cur = [c \in Conns |-> NoMsg]
    /\ result = [c \in Conns |-> NoResult]
    /\ pending = [c \in Conns |-> <<>>]
    /\ sent = [c \in Conns |-> <<>>]
    /\ dirty = [c \in Conns |-> FALSE]
    /\ nreq = [c \in Conns |-> 0]
    /\ outcome = [c \in Conns |-> "running"]
    /\ errctx = [c \in Conns |-> <<>>]
    /\ at_eof = [c \in Conns |-> FALSE]
    /\ stream = [c \in Conns |-> "none"]
    /\ session_dn = [c \in Conns |-> "unauthenticated"]
    /\ flush_calls = [c \in Conns |-> 0]
    /\ acceptors = 1
    /\ acceptor_of = [c \in Conns |-> "none"]

SessionNext ==
    \E c \in Conns :
        \/ \E e \in Services : Accept(c, e)
        \/ TlsHandshakeOk(c)
        \/ TlsHandshakeFail(c)
        \/ PeerClose(c)
        \/ \E m \in Requests : ReadMsg(c, m)
        \/ ReadErr(c)
        \/ ReadEof(c)
        \/ \E r \in HandlerResults : Handle(c, r)
        \/ SendOk(c)
        \/ \E written \in BOOLEAN : SendFail(c, written)
        \/ FlushOk(c)
        \/ FlushFail(c)

(***************************************************************************)
(* Startup: get_file_as_byte_vec, get_tls_acceptor, build_ldap_server      *)
(***************************************************************************)
Bytes == {1, 2}
Paths == {"cert.pem", "key.pem"}
Ports == {3890, 6360, 17170}

\* what Identity::from_pkcs8 accepts
ValidCert == <<1, 2>>
ValidKey  == <<2, 1>>

Contents == UNION {[1..n -> Bytes] : n \in 0..MaxFileLen}

\* A file as the loader meets it: whether File::open and metadata succeed, its
\* bytes, and what f.read returns (the number of bytes read, -1 for an error).
FileStates ==
    {[open |-> FALSE, meta |-> FALSE, data |-> <<>>, readn |-> 0],
     [open |-> TRUE,  meta |-> FALSE, data |-> <<>>, readn |-> 0]}
    \cup UNION {{[open |-> TRUE, meta |-> TRUE, data |-> d, readn |-> n] :
                     n \in -1..Len(d)} : d \in Contents}

Ctx(msg)          == [msg |-> msg, file |-> "", port |-> 0]
FileCtx(msg, f)   == [msg |-> msg, file |-> f, port |-> 0]
PortCtx(msg, p)   == [msg |-> msg, file |-> "", port |-> p]

Ok(v)      == [ok |-> TRUE, val |-> v, chain |-> <<>>]
Err(chain) == [ok |-> FALSE, val |-> <<>>, chain |-> chain]

\* Result::context: the new context goes in front of the chain
WithContext(r, c) == IF r.ok THEN r ELSE Err(<<c>> \o r.chain)

\* vec![0; metadata.len()] after f.read stored n bytes in it
Buffer(data, n) == [i \in 1..Len(data) |-> IF i <= n THEN data[i] ELSE 0]

get_file_as_byte_vec_NoPath(filename, f) ==
    IF ~f.open THEN Err(<<Ctx("file not found")>>)
    ELSE IF ~f.meta THEN Err(<<Ctx("unable to read metadata")>>)
    ELSE IF f.readn < 0 THEN Err(<<Ctx("buffer overflow")>>)
    ELSE Ok(Buffer(f.data, f.readn))

get_file_as_byte_vec(filename, f) ==
    WithContext(
        IF ~f.open THEN Err(<<Ctx("file not found")>>)
        ELSE IF ~f.meta THEN Err(<<Ctx("unable to read metadata")>>)
        ELSE IF f.readn < 0 THEN Err(<<Ctx("buffer overflow")>>)
        ELSE Ok(Buffer(f.data, f.readn)),
        FileCtx("while reading file", filename))

\* Identity::from_pkcs8(&cert_file, &key_file)? and TlsAcceptor::new(identity)?
from_pkcs8(cert, key) ==
    IF cert = ValidCert /\ key = ValidKey THEN Ok("identity")
    ELSE Err(<<Ctx("invalid identity")>>)

\* [ok, chain] of get_tls_acceptor, and the files it went through
get_tls_acceptor(config, files) ==
    LET cert == get_file_as_byte_vec(config.cert_file, files[config.cert_file])
        key  == get_file_as_byte_vec(config.key_file, files[config.key_file])
    IN  IF ~cert.ok THEN [res |-> cert, read |-> <<config.cert_file>>]
        ELSE IF ~key.ok THEN [res |-> key, read |-> <<config.cert_file, config.key_file>>]
        ELSE [res |-> from_pkcs8(cert.val, key.val),
              read |-> <<config.cert_file, config.key_file>>]

InSeq(x, s) == \E i \in 1..Len(s) : s[i] = x

NotLoaded == [done |-> FALSE, ok |-> FALSE, buf |-> <<>>]
Pending   == [state |-> "pending", chain |-> <<>>]

\* ServerBuilder::bind on a port: the port is free, or the bind fails
CanBind(port) == port \notin busy

\* lines 120-123: the TLS context is set up whether or not ldaps is enabled
BuildTlsContext ==
    /\ bpc = "start"
    /\ LET r == get_tls_acceptor(cfg, fs)
       IN  /\ loaded' = [p \in Paths |->
                IF InSeq(p, r.read)
                  THEN LET g == get_file_as_byte_vec(p, fs[p])
                       IN  [done |-> TRUE, ok |-> g.ok, buf |-> g.val]
                  ELSE loaded[p]]
           /\ IF r.res.ok
                THEN /\ tls_built' = TRUE
                     /\ bpc' = "bind_ldap"
                     /\ UNCHANGED <<bresult, builder>>
                ELSE /\ bresult' = [state |-> "err",
                                    chain |-> <<Ctx("while setting up the SSL certificate")>>
                                               \o r.res.chain]
                     /\ builder' = {}
                     /\ bpc' = "done"
                     /\ UNCHANGED tls_built
    /\ UNCHANGED <<cfg, fs, busy, attempts>>
    /\ StartupOnly

ldap_bind_context(config) == PortCtx("while binding to the port", config.ldap_port)

ldaps_bind_context_WrongPort(config) ==
    PortCtx("while binding to the port", config.ldap_port)

ldaps_bind_context(config) == PortCtx("while binding to the port", config.ldaps_port)

\* lines 150-152: server_builder.bind("ldap", ..).with_context(..)
BindLdap ==
    /\ bpc = "bind_ldap"
    /\ attempts' = Append(attempts, "ldap")
    /\ IF CanBind(cfg.ldap_port)
         THEN /\ builder' = builder \cup {"ldap"}
              /\ bresult' = [state |-> "ok", chain |-> <<>>]
         ELSE /\ builder' = {}
              /\ bresult' = [state |-> "err",
                             chain |-> <<ldap_bind_context(cfg), Ctx("io error")>>]
    /\ bpc' = "ldaps"
    /\ UNCHANGED <<cfg, fs, busy, loaded, tls_built>>
    /\ StartupOnly

\* lines 153-160: `and_then` binds "ldaps" only on an Ok builder
BindLdaps ==
    /\ bpc = "ldaps"
    /\ IF cfg.enabled /\ bresult.state = "ok"
         THEN /\ attempts' = Append(attempts, "ldaps")
              /\ IF CanBind(cfg.ldaps_port)
                   THEN /\ builder' = builder \cup {"ldaps"}
                        /\ UNCHANGED bresult
                   ELSE /\ builder' = {}
                        /\ bresult' = [state |-> "err",
                                       chain |-> <<ldaps_bind_context(cfg), Ctx("io error")>>]
         ELSE UNCHANGED <<attempts, builder, bresult>>
    /\ bpc' = "done"
    /\ UNCHANGED <<cfg, fs, busy, loaded, tls_built>>
    /\ StartupOnly

Configs ==
    [enabled : BOOLEAN, cert_file : {"cert.pem"}, key_file : {"key.pem"},
     ldap_port : {3890}, ldaps_port : {6360}, http_port : {17170}]

StartupInit ==
    /\ cfg \in Configs
    /\ fs \in [Paths -> FileStates]
    /\ busy \in SUBSET {3890, 6360}
    /\ bpc = "start"
    /\ loaded = [p \in Paths |-> NotLoaded]
    /\ tls_built = FALSE
    /\ builder = {}
    /\ attempts = <<>>
    /\ bresult = Pending

StartupIdle ==
    /\ cfg = [enabled |-> FALSE, cert_file |-> "cert.pem", key_file |-> "key.pem",
              ldap_port |-> 3890, ldaps_port |-> 6360, http_port |-> 17170]
    /\ fs = [p \in Paths |-> [open |-> FALSE, meta |-> FALSE, data |-> <<>>, readn |-> 0]]
    /\ busy = {}
    /\ bpc = "idle"
    /\ loaded = [p \in Paths |-> NotLoaded]
    /\ tls_built = FALSE
    /\ builder = {}
    /\ attempts = <<>>
    /\ bresult = Pending

StartupNext ==
    \/ BuildTlsContext
    \/ BindLdap
    \/ BindLdaps

SessionIdle ==
    /\ listening = {}
    /\ endpoint = [c \in Conns |-> "none"]
    /\ pc = [c \in Conns |-> "idle"]
    /\ cur = [c \in Conns |-> NoMsg]
    /\ result = [c \in Conns |-> NoResult]
    /\ pending = [c \in Conns |-> <<>>]
    /\ sent = [c \in Conns |-> <<>>]
    /\ dirty = [c \in Conns |-> FALSE]
    /\ nreq = [c \in Conns |-> 0]
    /\ outcome = [c \in Conns |-> "running"]
    /\ errctx = [c \in Conns |-> <<>>]
    /\ at_eof = [c \in Conns |-> FALSE]
    /\ stream = [c \in Conns |-> "none"]
    /\ session_dn = [c \in Conns |-> "unauthenticated"]
    /\ flush_calls = [c \in Conns |-> 0]
    /\ acceptors = 0
    /\ acceptor_of = [c \in Conns |-> "none"]

(***************************************************************************)
(* HTTP: build_tcp_server and http_config                                  *)
(***************************************************************************)
Tokens  == {101, 102, 103}
Workers == {"w1", "w2"}

\* lines 102-105: backend_handler.get_jwt_blacklist().await.context(..)?
FetchBlacklist(fetched) ==
    /\ hpc = "start"
    /\ IF fetched
         THEN /\ jwt_blacklist' = db_blacklist
              /\ hpc' = "bind"
              /\ UNCHANGED hresult
         ELSE /\ hresult' = [state |-> "err",
                             chain |-> <<Ctx("while getting the jwt blacklist")>>]
              /\ hpc' = "done"
              /\ UNCHANGED jwt_blacklist
    /\ fetches' = fetches + 1
    /\ UNCHANGED <<db_blacklist, app_state, started, revoked, cfg, busy>>
    /\ UNCHANGED <<http_binds, exchange>>
    /\ HttpOnly

\* lines 108-136: server_builder.bind("http", .., factory).with_context(..)
BindHttp ==
    /\ hpc = "bind"
    /\ hresult' = IF CanBind(cfg.http_port)
                    THEN [state |-> "ok", chain |-> <<>>]
                    ELSE [state |-> "err",
                          chain |-> <<PortCtx("While bringing up the TCP server with port",
                                              cfg.http_port), Ctx("io error")>>]
    /\ hpc' = "done"
    /\ http_binds' = http_binds + 1
    /\ UNCHANGED <<db_blacklist, jwt_blacklist, app_state, started, revoked, cfg, busy>>
    /\ UNCHANGED <<fetches, exchange>>
    /\ HttpOnly

http_config_Empty(blacklist) == {}

\* http_config, line 60: jwt_blacklist: RwLock::new(jwt_blacklist)
http_config(blacklist) == blacklist

\* The server runs the factory closure of `bind` (lines 109-130) once in each
\* worker: it clones the captured HashSet and builds that worker's AppState.
StartWorker(w) ==
    /\ hpc = "done"
    /\ hresult.state = "ok"
    /\ w \notin started
    /\ started' = started \cup {w}
    /\ app_state' = [app_state EXCEPT ![w] = http_config(jwt_blacklist)]
    /\ UNCHANGED <<hpc, db_blacklist, jwt_blacklist, revoked, hresult, cfg, busy>>
    /\ UNCHANGED <<fetches, http_binds, exchange>>
    /\ HttpOnly

\* A logout handled by worker w: the token's hash is stored by the backend and
\* inserted, under the write lock, into the jwt_blacklist of w's AppState.
Logout(w, t) ==
    /\ w \in started
    /\ db_blacklist' = db_blacklist \cup {t}
    /\ app_state' = [app_state EXCEPT ![w] = @ \cup {t}]
    /\ revoked' = revoked \cup {t}
    /\ UNCHANGED <<hpc, jwt_blacklist, started, hresult, cfg, busy>>
    /\ UNCHANGED <<fetches, http_binds, exchange>>
    /\ HttpOnly

\* A token-validity check handled by worker w: a read of its AppState's set
IsRevoked(w, t) == t \in app_state[w]

(***************************************************************************)
(* HTTP: error_to_http_response                                            *)
(***************************************************************************)
\* the variants of DomainError matched at lines 34-42
ErrorKinds == {"AuthenticationError", "AuthenticationProtocolError",
               "DatabaseError", "InternalError", "UnknownCryptoError",
               "Base64DecodeError", "BinarySerializationError"}

\* what a variant carries
Payloads == {"cause1", "cause2"}

DomainErrors == [kind : ErrorKinds, payload : Payloads]

\* DomainError's Display: the variant's message followed by what it carries
to_string(error) == <<"description of", error.kind, error.payload>>

error_to_http_response_HidesInternal(error) ==
    [status |-> CASE error.kind \in {"AuthenticationError",
                                     "AuthenticationProtocolError"} -> 401
                  [] error.kind \in {"DatabaseError", "InternalError",
                                     "UnknownCryptoError"} -> 500
                  [] error.kind \in {"Base64DecodeError",
                                     "BinarySerializationError"} -> 400,
     body |-> IF error.kind \in {"DatabaseError", "InternalError", "UnknownCryptoError"}
                THEN <<"internal server error">> ELSE to_string(error)]

\* lines 32-45: the builder chosen by the match, then .body(error.to_string())
error_to_http_response(error) ==
    [status |-> CASE error.kind \in {"AuthenticationError",
                                     "AuthenticationProtocolError"} -> 401
                  [] error.kind \in {"DatabaseError", "InternalError",
                                     "UnknownCryptoError"} -> 500
                  [] error.kind \in {"Base64DecodeError",
                                     "BinarySerializationError"} -> 400,
     body |-> to_string(error)]

NoExchange == [kind |-> "none"]

\* A handler of a running worker turns a backend error into its response
ErrorResponse(error) ==
    /\ started # {}
    /\ exchange' = [kind |-> "error", req |-> error,
                    resp |-> error_to_http_response(error)]
    /\ UNCHANGED <<hpc, db_blacklist, jwt_blacklist, app_state, started, revoked,
                   hresult, cfg, busy, fetches, http_binds>>
    /\ HttpOnly

(***************************************************************************)
(* HTTP: the services http_config registers, and index                     *)
(***************************************************************************)
\* request paths, as their segments
HttpPaths == {<<>>, <<"auth", "login">>, <<"api", "graphql">>, <<"pkg", "app.wasm">>,
              <<"static", "style.css">>, <<"static", "fonts", "x.woff">>,
              <<"some", "client", "route">>, <<"users">>}

Methods == {"GET", "POST"}

HttpRequests == [method : Methods, path : HttpPaths]

\* lines 64-82: the services in the order http_config registers them, each with
\* its mount prefix and, for Files, the directory it serves
Registered ==
    << [prefix |-> <<"auth">>, kind |-> "auth", dir |-> <<>>],
       [prefix |-> <<"api">>, kind |-> "api", dir |-> <<>>],
       [prefix |-> <<"pkg">>, kind |-> "files", dir |-> <<"app", "pkg">>],
       [prefix |-> <<"static">>, kind |-> "files", dir |-> <<"app", "static">>],
       [prefix |-> <<"static", "fonts">>, kind |-> "files",
        dir |-> <<"app", "static", "fonts">>],
       [prefix |-> <<>>, kind |-> "index", dir |-> <<>>] >>

IsPrefix(p, path) == Len(p) <= Len(path) /\ SubSeq(path, 1, Len(p)) = p

\* the first registered service whose prefix matches takes the request
Matched(path) ==
    LET hits == {i \in 1..Len(Registered) : IsPrefix(Registered[i].prefix, path)}
    IN  Registered[CHOOSE i \in hits : \A j \in hits : i <= j]

\* the part of the path below the service's prefix
Below(svc, path) == SubSeq(path, Len(svc.prefix) + 1, Len(path))

NotFound == [status |-> 404, body |-> <<"not found">>]

\* lines 25-30: NamedFile::open("app/index.html")?
index(index_ok) ==
    IF index_ok
      THEN [status |-> 200, body |-> <<"app", "index.html">>]
      ELSE NotFound

IndexRoutes_WildcardOnly == {".*"}

\* lines 80-81: route("") for the root path, route(".*") for what is below it
IndexRoutes == {"", ".*"}

\* whether one of the given patterns of the scope "/" takes the rest of the path
RouteTakes(routes, rest) ==
    \/ "" \in routes /\ rest = <<>>
    \/ ".*" \in routes /\ rest # <<>>

\* the response to a request; `present` says whether the file the path names
\* exists in the served directory, `index_ok` whether app/index.html opens
route(req, present, index_ok) ==
    LET svc == Matched(req.path)
        rest == Below(svc, req.path)
    IN  CASE svc.kind = "files" ->
               IF req.method # "GET"
                 THEN [status |-> 405, body |-> <<"method not allowed">>]
                 ELSE IF present /\ rest # <<>>
                        THEN [status |-> 200, body |-> svc.dir \o rest]
                        ELSE NotFound
          [] svc.kind = "index" ->
               IF req.method = "GET" /\ RouteTakes(IndexRoutes, rest)
                 THEN index(index_ok)
                 ELSE NotFound
          [] OTHER -> [status |-> 0, body |-> <<"delegated", svc.kind>>]

\* A request served by a running worker
Serve(req, present, index_ok) ==
    /\ started # {}
    /\ exchange' = [kind |-> "route", req |-> req, present |-> present,
                    index_ok |-> index_ok, resp |-> route(req, present, index_ok)]
    /\ UNCHANGED <<hpc, db_blacklist, jwt_blacklist, app_state, started, revoked,
                   hresult, cfg, busy, fetches, http_binds>>
    /\ HttpOnly

HttpInit ==
    /\ hpc = "start"
    /\ db_blacklist \in SUBSET Tokens
    /\ jwt_blacklist = {}
    /\ app_state = [w \in Workers |-> {}]
    /\ started = {}
    /\ revoked = {}
    /\ hresult = Pending
    /\ fetches = 0
    /\ http_binds = 0
    /\ exchange = NoExchange

HttpIdle ==
    /\ hpc = "idle"
    /\ db_blacklist = {}
    /\ jwt_blacklist = {}
    /\ app_state = [w \in Workers |-> {}]
    /\ started = {}
    /\ revoked = {}
    /\ hresult = Pending
    /\ fetches = 0
    /\ http_binds = 0
    /\ exchange = NoExchange

HttpEnv ==
    /\ cfg = [enabled |-> FALSE, cert_file |-> "cert.pem", key_file |-> "key.pem",
              ldap_port |-> 3890, ldaps_port |-> 6360, http_port |-> 17170]
    /\ fs = [p \in Paths |-> [open |-> FALSE, meta |-> FALSE, data |-> <<>>, readn |-> 0]]
    /\ busy \in SUBSET {17170}
    /\ bpc = "idle"
    /\ loaded = [p \in Paths |-> NotLoaded]
    /\ tls_built = FALSE
    /\ builder = {}
    /\ attempts = <<>>
    /\ bresult = Pending

HttpNext ==
    \/ \E fetched \in BOOLEAN : FetchBlacklist(fetched)
    \/ BindHttp
    \/ \E w \in Workers : StartWorker(w)
    \/ \E w \in Workers, t \in Tokens : Logout(w, t)
    \/ \E error \in DomainErrors : ErrorResponse(error)
    \/ \E req \in HttpRequests, present \in BOOLEAN, index_ok \in BOOLEAN :
          Serve(req, present, index_ok)

(***************************************************************************)
(* Specifications                                                          *)
(***************************************************************************)
Init == SessionInit /\ StartupIdle /\ HttpIdle

Next == SessionNext

Spec == Init /\ [][Next]_vars

StartupSpecInit == StartupInit /\ SessionIdle /\ HttpIdle

StartupSpec == StartupSpecInit /\ [][StartupNext]_vars

HttpSpecInit == HttpInit /\ HttpEnv /\ SessionIdle

HttpSpec == HttpSpecInit /\ [][HttpNext]_vars

\* One connection and its task. The steps of the task itself are taken as long
\* as they stay possible: the runtime keeps polling a task that is ready, a
\* write or a flush completes or fails, and the handler returns. What the peer
\* does (sending a request, garbage, or closing) is under no such obligation.
LiveConns == {"c1"}

TaskStep(c) ==
    \/ TlsHandshakeOk(c)
    \/ TlsHandshakeFail(c)
    \/ ReadEof(c)
    \/ \E r \in HandlerResults : Handle(c, r)
    \/ SendOk(c)
    \/ \E written \in BOOLEAN : SendFail(c, written)
    \/ FlushOk(c)
    \/ FlushFail(c)

LiveNext ==
    \E c \in LiveConns :
        \/ \E e \in Services : Accept(c, e)
        \/ TlsHandshakeOk(c)
        \/ TlsHandshakeFail(c)
        \/ PeerClose(c)
        \/ \E m \in Requests : ReadMsg(c, m)
        \/ ReadErr(c)
        \/ ReadEof(c)
        \/ \E r \in HandlerResults : Handle(c, r)
        \/ SendOk(c)
        \/ \E written \in BOOLEAN : SendFail(c, written)
        \/ FlushOk(c)
        \/ FlushFail(c)

LiveSpec == Init /\ [][LiveNext]_vars /\ \A c \in LiveConns : WF_vars(TaskStep(c))

(***************************************************************************)
(* Properties of the session loop (checked under Spec)                     *)
(***************************************************************************)
Responses(c) == [i \in 1..Len(result[c].ops) |-> ResponseMsg(cur[c], result[c].ops[i])]

EmptyResult(c) == result[c].kind = "Some" /\ result[c].ops = <<>>

\* C1: every response written for a request carries that request's message id
\* and an empty control list.
C1_ResponseCarriesRequestId ==
    \A c \in Conns : \A i \in 1..Len(sent[c]) :
        /\ sent[c][i].msgid = cur[c].msgid
        /\ sent[c][i].ctrl = <<>>

C1_Witness ==
    \E c \in Conns : nreq[c] = 2 /\ cur[c].msgid = 8 /\ Len(sent[c]) = 2

\* C2: a request is read only when the previous request's responses are all
\* written and flushed: while one is being handled nothing of an earlier
\* request is left to write or to flush, and at the loop head what was written
\* is exactly the handler's result, in order.
C2_NoPipelining ==
    \A c \in Conns :
        /\ pc[c] = "handle" => pending[c] = <<>> /\ ~dirty[c]
        /\ (pc[c] = "read" /\ nreq[c] > 0) =>
              /\ pending[c] = <<>>
              /\ ~dirty[c]
              /\ result[c].kind = "Some"
              /\ sent[c] = Responses(c)

C2_Witness ==
    \E c \in Conns : pc[c] = "handle" /\ nreq[c] = 2

\* C3: once the handler has returned None the session is over, with a success
\* and nothing written for that message, and a session that is over never
\* decodes or handles another message.
C3_NoneEndsSession ==
    /\ [](\A c \in Conns : result[c].kind = "None" =>
              pc[c] = "done" /\ outcome[c] = "ok" /\ sent[c] = <<>> /\ errctx[c] = <<>>)
    /\ [][\A c \in Conns : pc[c] = "done" =>
              pc'[c] = "done" /\ nreq'[c] = nreq[c] /\ cur'[c] = cur[c]
              /\ sent'[c] = sent[c]]_vars

C3_Witness ==
    \E c \in Conns : result[c].kind = "None" /\ cur[c].op = "unbind"
                     /\ nreq[c] = 1 /\ pc[c] = "done"

\* C4 as stated: after an empty response list nothing is written, no error is
\* raised and the loop goes on to the next request.
C4_EmptyListNeverFails ==
    [][\A c \in Conns : (pc[c] = "reply" /\ EmptyResult(c) /\ pc'[c] # pc[c]) =>
          /\ sent'[c] = <<>>
          /\ pc'[c] = "read"
          /\ outcome'[c] = "running"]_vars

\* C4, amended: after an empty response list nothing is written and the write
\* side is flushed; the loop goes on to the next request unless that flush
\* fails, which ends the session with the flush error.
C4_EmptyListFlushes ==
    [][\A c \in Conns : (pc[c] = "reply" /\ EmptyResult(c) /\ pc'[c] # pc[c]) =>
          /\ sent'[c] = <<>>
          /\ \/ pc'[c] = "read" /\ outcome'[c] = "running" /\ errctx'[c] = <<>>
             \/ /\ pc'[c] = "done" /\ outcome'[c] = "err"
                /\ errctx'[c] = <<"while handling incoming messages",
                                  "while flushing responses: {:#}">>]_vars

C4_Witness ==
    \E c \in Conns : EmptyResult(c) /\ pc[c] = "read" /\ nreq[c] = 1
                     /\ outcome[c] = "running"

\* C6: a failed TLS handshake ends its own connection with an error and
\* nothing else: every listener keeps accepting and no other connection's
\* state changes.
C6_HandshakeFailureIsLocal ==
    /\ [](\A c \in Conns : errctx[c] = <<"tls handshake">> =>
              /\ {"ldap", "ldaps", "http"} \subseteq listening
              /\ pc[c] = "done" /\ outcome[c] = "err" /\ nreq[c] = 0)
    /\ [][\A c \in Conns : (pc[c] = "handshake" /\ outcome'[c] = "err") =>
              /\ listening' = listening
              /\ \A d \in Conns \ {c} :
                    /\ pc'[d] = pc[d] /\ outcome'[d] = outcome[d]
                    /\ sent'[d] = sent[d] /\ pending'[d] = pending[d]
                    /\ cur'[d] = cur[d] /\ nreq'[d] = nreq[d]]_vars

C6_Witness ==
    \E c, d \in Conns :
        /\ errctx[c] = <<"tls handshake">>
        /\ endpoint[d] = "ldaps" /\ pc[d] = "read" /\ nreq[d] = 1 /\ Len(sent[d]) = 1

RecvChain == <<"while handling incoming messages", "while receiving LDAP op">>

SendChain == <<"while handling incoming messages", "while sending a response: {:#}">>

FlushChain == <<"while handling incoming messages", "while flushing responses: {:#}">>

Ended(c) == pc[c] = "done"

Succeeded(c) == Ended(c) /\ outcome[c] = "ok" /\ stream[c] = "returned"

\* what every exit of the session has in common: a success hands the rejoined
\* stream back, an error exit does not
ExitsKeepStreamRule ==
    \A c \in Conns :
        /\ outcome[c] = "ok" => Ended(c) /\ stream[c] = "returned"
        /\ outcome[c] = "err" => Ended(c) /\ stream[c] = "dropped"
        /\ stream[c] = "returned" => outcome[c] = "ok"

\* C12 as stated: a success returns the rejoined stream, an error exit does
\* not, and once the peer has closed the stream the session eventually ends
\* with that success.
C12_PeerCloseEndsInSuccess ==
    /\ []ExitsKeepStreamRule
    /\ \A c \in LiveConns : at_eof[c] ~> Succeeded(c)

\* C12, amended: a success returns the rejoined stream and an error exit does
\* not; once the peer has closed the stream the session eventually ends; it
\* ends with the success when the loop reaches the end of the stream, and with
\* an error when writing or flushing the responses of the request in progress
\* fails first.
C12_EofEndsSession ==
    /\ []ExitsKeepStreamRule
    /\ \A c \in LiveConns :
          /\ at_eof[c] ~> Ended(c)
          /\ (at_eof[c] /\ pc[c] = "read") ~> Succeeded(c)
          /\ [](at_eof[c] /\ Ended(c) /\ outcome[c] = "err" =>
                    errctx[c] \in {SendChain, FlushChain})

C12_Witness ==
    \E c \in LiveConns : at_eof[c] /\ Succeeded(c) /\ nreq[c] = 2
                         /\ result[c].kind = "Some"

\* C14: a request that cannot be read or decoded ends the connection with the
\* receive error: the handler is not called for it, nothing is written, and
\* nothing more is read on that connection.
C14_ReadFailureIsFatal ==
    /\ [](\A c \in Conns : errctx[c] = RecvChain =>
              Ended(c) /\ outcome[c] = "err" /\ pending[c] = <<>>)
    /\ [][\A c \in Conns : (errctx[c] # RecvChain /\ errctx'[c] = RecvChain) =>
              /\ pc[c] = "read"
              /\ result'[c] = result[c] /\ session_dn' = session_dn
              /\ sent'[c] = sent[c] /\ flush_calls'[c] = flush_calls[c]
              /\ cur'[c] = cur[c] /\ nreq'[c] = nreq[c]]_vars
    /\ [][\A c \in Conns : errctx[c] = RecvChain =>
              /\ pc'[c] = "done" /\ result'[c] = result[c]
              /\ sent'[c] = sent[c] /\ flush_calls'[c] = flush_calls[c]
              /\ cur'[c] = cur[c] /\ nreq'[c] = nreq[c]]_vars

C14_Witness ==
    \E c \in Conns : errctx[c] = RecvChain /\ nreq[c] = 1 /\ Len(sent[c]) = 2
                     /\ Ended(c)

\* C15: a failed write or flush ends the session with that error. After the
\* first failed write the response operations after it are never written, no
\* flush is attempted and no further request is read.
C15_WriteFailureIsFatal ==
    /\ [](\A c \in Conns :
              /\ errctx[c] = SendChain =>
                    /\ Ended(c) /\ outcome[c] = "err"
                    /\ flush_calls[c] = 0
                    /\ pending[c] # <<>>
                    /\ Len(sent[c]) <= Len(result[c].ops) - Len(pending[c]) + 1
                    /\ sent[c] = SubSeq(Responses(c), 1, Len(sent[c]))
              /\ errctx[c] = FlushChain =>
                    Ended(c) /\ outcome[c] = "err" /\ flush_calls[c] = 1)
    /\ [][\A c \in Conns : errctx[c] \in {SendChain, FlushChain} =>
              /\ pc'[c] = "done" /\ sent'[c] = sent[c] /\ pending'[c] = pending[c]
              /\ flush_calls'[c] = flush_calls[c] /\ nreq'[c] = nreq[c]
              /\ cur'[c] = cur[c]]_vars

C15_Witness ==
    \E c \in Conns : errctx[c] = SendChain /\ Len(result[c].ops) = 2
                     /\ Len(pending[c]) = 2 /\ sent[c] = <<>> /\ nreq[c] = 1

\* C16: every connection has a session of its own. The bound identity of a
\* connection's session changes only when that connection's own bind is
\* handled, so it is what the connection's next request sees, and a bind on
\* one connection never changes the identity of another.
C16_SessionPerConnection ==
    /\ [](\A c \in Conns : session_dn[c] = "bound" => nreq[c] >= 1)
    /\ [][\A c \in Conns : session_dn'[c] # session_dn[c] =>
              /\ pc[c] = "handle" /\ cur[c].op = "bind"
              /\ session_dn'[c] = "bound"
              /\ \A d \in Conns \ {c} : session_dn'[d] = session_dn[d]]_vars
    /\ [][\A c \in Conns : (pc[c] = "handle" /\ cur[c].op = "bind" /\ pc'[c] # "handle")
              => session_dn'[c] = "bound"]_vars

C16_Witness ==
    \E c, d \in Conns :
        /\ session_dn[c] = "bound" /\ pc[c] = "read" /\ nreq[c] = 1
        /\ session_dn[d] = "unauthenticated" /\ pc[d] = "handle" /\ cur[d].op = "search"

\* C17: one TLS acceptor exists in the process, however many TLS connections
\* are accepted: a handshake constructs none and uses a clone of that one.
C17_OneTlsAcceptor ==
    /\ acceptors = 1
    /\ \A c \in Conns :
          /\ acceptor_of[c] \in {"none", "shared"}
          /\ (endpoint[c] = "ldaps" /\ pc[c] \notin {"idle", "handshake"}) =>
                acceptor_of[c] = "shared"
          /\ endpoint[c] # "ldaps" => acceptor_of[c] = "none"

C17_Witness ==
    /\ \A c \in Conns : endpoint[c] = "ldaps" /\ acceptor_of[c] = "shared"
    /\ \E c \in Conns : outcome[c] = "err" /\ errctx[c] = <<"tls handshake">>
    /\ \E c \in Conns : pc[c] = "read" /\ nreq[c] = 1

\* C18: a connection's task ends only because the peer closed the stream, the
\* handler asked to end, or an I/O or TLS error occurred; a connection that
\* waits for a request is never ended for having waited.
C18_EndsOnlyForCause ==
    /\ [](\A c \in Conns : Ended(c) =>
              \/ outcome[c] = "ok" /\ at_eof[c] /\ result[c].kind # "None"
              \/ outcome[c] = "ok" /\ result[c].kind = "None"
              \/ /\ outcome[c] = "err"
                 /\ errctx[c] \in {<<"tls handshake">>, RecvChain, SendChain, FlushChain})
    /\ [][\A c \in Conns : (pc[c] = "read" /\ ~at_eof[c] /\ pc'[c] = "done") =>
              outcome'[c] = "err" /\ errctx'[c] = RecvChain]_vars

C18_Witness ==
    \E c, d \in Conns :
        /\ Ended(c) /\ outcome[c] = "ok" /\ at_eof[c] /\ nreq[c] = 1
        /\ pc[d] = "read" /\ ~at_eof[d] /\ nreq[d] = 1

\* C19: while no write fails, the responses of a request are written one per
\* response operation, in the handler's order, none dropped or repeated, and
\* once they are all written resp.flush() is called exactly once.
C19_OneMessagePerOpThenFlush ==
    \A c \in Conns :
        /\ (pc[c] = "reply" /\ result[c].ops # <<>>) =>
              /\ Len(sent[c]) + Len(pending[c]) = Len(result[c].ops)
              /\ sent[c] = SubSeq(Responses(c), 1, Len(sent[c]))
              /\ pending[c] = SubSeq(result[c].ops, Len(sent[c]) + 1, Len(result[c].ops))
              /\ flush_calls[c] = 0
        /\ (pc[c] = "read" /\ result[c].kind = "Some" /\ result[c].ops # <<>>) =>
              /\ sent[c] = Responses(c)
              /\ flush_calls[c] = 1

C19_Witness ==
    \E c \in Conns : pc[c] = "read" /\ Len(result[c].ops) = 2 /\ flush_calls[c] = 1
                     /\ sent[c] = Responses(c) /\ nreq[c] = 2

(***************************************************************************)
(* Properties of build_ldap_server (checked under StartupSpec)             *)
(***************************************************************************)
Returned == bpc = "done"

CannotLoad(p) == ~fs[p].open \/ ~fs[p].meta \/ fs[p].readn < 0

NamesFile(chain, p) ==
    \E i \in 1..Len(chain) : chain[i].msg = "while reading file" /\ chain[i].file = p

\* C7 as stated: the acceptor is built only if ldaps is enabled, and with
\* ldaps disabled the result depends on the plaintext port alone.
C7_TlsOnlyIfEnabled ==
    /\ tls_built => cfg.enabled
    /\ (\E p \in Paths : loaded[p].done) => cfg.enabled
    /\ (Returned /\ ~cfg.enabled) => (bresult.state = "ok" <=> CanBind(cfg.ldap_port))

\* C8 as stated: once binding has begun every enabled endpoint is tried.
C8_AllBindsAttempted ==
    (Returned /\ attempts # <<>>) =>
        /\ InSeq("ldap", attempts)
        /\ cfg.enabled => InSeq("ldaps", attempts)

\* C8, amended: the binds are tried in order and stop at the first failure:
\* the plaintext port first, the TLS port only if ldaps is enabled and the
\* plaintext bind succeeded; a failed bind makes the result an error whose
\* outermost context is the port that failed.
C8_BindsInOrder ==
    (Returned /\ tls_built) =>
        /\ attempts = IF cfg.enabled /\ CanBind(cfg.ldap_port)
                        THEN <<"ldap", "ldaps">> ELSE <<"ldap">>
        /\ ~CanBind(cfg.ldap_port) =>
              /\ bresult.state = "err"
              /\ bresult.chain[1] = PortCtx("while binding to the port", cfg.ldap_port)
        /\ (cfg.enabled /\ CanBind(cfg.ldap_port) /\ ~CanBind(cfg.ldaps_port)) =>
              /\ bresult.state = "err"
              /\ bresult.chain[1] = PortCtx("while binding to the port", cfg.ldaps_port)
        /\ bresult.state = "ok" <=>
              /\ CanBind(cfg.ldap_port)
              /\ cfg.enabled => CanBind(cfg.ldaps_port)

C8_Witness ==
    Returned /\ attempts = <<"ldap", "ldaps">> /\ bresult.state = "err"

\* C9: with ldaps enabled, a certificate or key file that cannot be loaded
\* makes build_ldap_server return an error whose chain names that file, with
\* no bind attempted and nothing bound.
C9_LoadFailureAbortsStartup ==
    (Returned /\ cfg.enabled) =>
        /\ CannotLoad(cfg.cert_file) =>
              /\ bresult.state = "err"
              /\ NamesFile(bresult.chain, cfg.cert_file)
              /\ attempts = <<>> /\ builder = {}
        /\ (~CannotLoad(cfg.cert_file) /\ CannotLoad(cfg.key_file)) =>
              /\ bresult.state = "err"
              /\ NamesFile(bresult.chain, cfg.key_file)
              /\ attempts = <<>> /\ builder = {}

C9_Witness ==
    /\ Returned /\ cfg.enabled /\ bresult.state = "err"
    /\ ~CannotLoad(cfg.cert_file) /\ ~fs[cfg.key_file].open
    /\ NamesFile(bresult.chain, cfg.key_file)

\* C10 as stated: the loader fails when fewer bytes are read than the file
\* holds, so a buffer it returns is the file's contents.
C10_LoaderReturnsWholeFile ==
    \A p \in Paths : (loaded[p].done /\ loaded[p].ok) =>
        /\ fs[p].readn = Len(fs[p].data)
        /\ loaded[p].buf = fs[p].data

(***************************************************************************)
(* Properties of the HTTP application state (checked under HttpSpec)       *)
(***************************************************************************)
\* C5 as stated: there is one revocation set, so a token hash a logout has
\* inserted is seen as revoked by a check on any worker.
C5_OneRevocationSet ==
    \A w \in started : \A t \in revoked : IsRevoked(w, t)

\* C11: every backend error gets a response: 401 for the authentication and
\* authentication-protocol errors, 500 for the database, internal and crypto
\* errors, 400 for the base64 and binary-serialization errors, and the body is
\* the error's description.
C11_ErrorMappingTotal ==
    exchange.kind = "error" =>
        LET e == exchange.req
            r == exchange.resp
        IN  /\ r.status \in {400, 401, 500}
            /\ r.status = 401 <=>
                  e.kind \in {"AuthenticationError", "AuthenticationProtocolError"}
            /\ r.status = 500 <=>
                  e.kind \in {"DatabaseError", "InternalError", "UnknownCryptoError"}
            /\ r.status = 400 <=>
                  e.kind \in {"Base64DecodeError", "BinarySerializationError"}
            /\ r.body = to_string(e)

C11_Witness ==
    /\ exchange.kind = "error"
    /\ exchange.req = [kind |-> "UnknownCryptoError", payload |-> "cause2"]
    /\ exchange.resp.status = 500

IsGet(x) == x.kind = "route" /\ x.req.method = "GET"

\* a path none of the /auth, /api, /pkg and /static subtrees takes (the root included)
Unmatched(path) == path = <<>> \/ Head(path) \notin {"auth", "api", "pkg", "static"}

UnderFonts(path) == IsPrefix(<<"static", "fonts">>, path) /\ Len(path) > 2

EntryDocument == [status |-> 200, body |-> <<"app", "index.html">>]

FontsRule ==
    (IsGet(exchange) /\ UnderFonts(exchange.req.path)) =>
        /\ exchange.resp # EntryDocument
        /\ IF exchange.present
             THEN exchange.resp = [status |-> 200,
                                   body |-> <<"app">> \o exchange.req.path]
             ELSE exchange.resp.status = 404

\* C13 as stated: a GET of the root or of any unmatched path returns the entry
\* document; a GET under /static/fonts returns the file if it is present and
\* 404 otherwise, never the entry document.
C13_UnmatchedGetsEntryDocument ==
    /\ (IsGet(exchange) /\ Unmatched(exchange.req.path)) =>
          exchange.resp = EntryDocument
    /\ FontsRule

\* C13, amended: a GET of the root or of any unmatched path is answered by
\* index: the entry document if app/index.html can be opened, the error of
\* opening it otherwise; a GET under /static/fonts returns the file if it is
\* present and 404 otherwise, never the entry document.
C13_UnmatchedGetsIndex ==
    /\ (IsGet(exchange) /\ Unmatched(exchange.req.path)) =>
          IF exchange.index_ok
            THEN exchange.resp = EntryDocument
            ELSE exchange.resp.status = 404 /\ exchange.resp # EntryDocument
    /\ FontsRule

C13_Witness ==
    /\ IsGet(exchange) /\ exchange.req.path = <<"some", "client", "route">>
    /\ exchange.index_ok /\ exchange.resp = EntryDocument

\* C20: build_tcp_server fetches the revoked identifiers once, before it
\* binds; every application state built afterwards contains all of them; a
\* failed fetch makes it return the fetch error with no bind attempted.
C20_BlacklistFetchedBeforeBind ==
    /\ fetches <= 1
    /\ http_binds <= fetches
    /\ (fetches = 1 /\ revoked = {} /\ hresult.state # "err") =>
          jwt_blacklist = db_blacklist
    /\ \A w \in started : jwt_blacklist \subseteq app_state[w]
    /\ started # {} => fetches = 1 /\ http_binds = 1
    /\ (hpc = "done" /\ http_binds = 0) =>
          /\ hresult = [state |-> "err",
                        chain |-> <<Ctx("while getting the jwt blacklist")>>]
          /\ started = {}

C20_Witness ==
    /\ started = Workers /\ jwt_blacklist = {101, 103}
    /\ \E w \in Workers : app_state[w] = Tokens

====
